---- MODULE Spec2Model ----
(***************************************************************************)
(* A model of scripts/json_to_csv.py: the command line entry point main,   *)
(* the conversion json_to_csv, the file system it reads and writes, and    *)
(* the wall clock it takes its timestamp from.                             *)
(*                                                                         *)
(* JSON values.  A scalar is a pair <<tag, text>> (tag "int", "float",     *)
(* "str" or "null"); an array is <<"list", sequence>>; an object is a      *)
(* function from keys to JSON values.  A parsed document is a record       *)
(* [kind, val]: kind is "dict" or "list" (what isinstance sees), or        *)
(* "malformed" for a text json.load rejects.                               *)
(***************************************************************************)
EXTENDS Integers, Sequences, FiniteSets, TLC

VARIABLES
    input,      \* the parsed content of the JSON file at InputPath
    now,        \* the wall clock, in ticks (TicksPerSecond ticks a second)
    folders,    \* the directories that exist
    fs,         \* the files written: <<folder, name>> -> file
    argv,       \* sys.argv of the last run of the program
    exitCode,   \* exit code of the last run (-1: no run yet)
    log,        \* what the last run printed
    trace,      \* the file-system calls of the last run, in order
    ret,        \* what json_to_csv returned in the last run
    results,    \* json_to_csv's local `results` in the last run
    event_key,  \* json_to_csv's local `event_key` in the last run
    pen,        \* json_to_csv's local `pen` in the last run
    result,     \* the loop variable `result` (one record)
    row         \* the dict `row` built from `result`

vars == <<input, now, folders, fs, argv, exitCode, log, trace, ret,
          results, event_key, pen, result, row>>

----------------------------------------------------------------------------
(* Bounds of the model *)

MaxWeight == 2         \* header keys + records of a document
MaxSecond == 1         \* the clock runs over seconds 0 .. MaxSecond
TicksPerSecond == 2    \* datetime.now() is finer than the second strftime keeps

MaxNow == (MaxSecond + 1) * TicksPerSecond - 1

----------------------------------------------------------------------------
(* JSON values *)

V7 == <<"int", "7">>
VA == <<"str", "A">>
VNull == <<"null", "">>
Empty == <<"str", "">>
Zero == <<"int", "0">>
DefaultDistance == <<"float", "32417.966">>
DefaultEventKey == <<"str", "88000">>
DefaultPen == <<"str", "1">>

None == <<>>

\* str(v) as an f-string formats it
Str(v) == IF v[1] = "null" THEN "None" ELSE v[2]

\* the maps from at most n of the keys to the values
Maps(keys, vals, n) ==
    UNION { [S -> vals] : S \in { T \in SUBSET keys : Cardinality(T) <= n } }

RECURSIVE SeqsUpTo(_, _)
SeqsUpTo(S, n) ==
    IF n = 0 THEN { <<>> }
    ELSE LET shorter == SeqsUpTo(S, n - 1)
         IN shorter \cup { Append(s, x) : s \in { t \in shorter : Len(t) = n - 1 }, x \in S }

----------------------------------------------------------------------------
(* The code *)

fieldnames ==
    << "EventKey", "Pen", "Position", "Name", "Team", "Country", "Time",
       "DeltaTime", "Distance", "DeltaDistance", "Points", "Gender", "UID",
       "ARR", "ARRBand", "EventRating", "EventRatingBand", "AgeBand",
       "NGB", "NGB ID", "UCI ID" >>

\* dict.get(key, default)
Get(d, key, default) == IF key \in DOMAIN d THEN d[key] ELSE default

MakeRowSnakeFirst(r, ek, pn) ==
       ("EventKey" :> Get(r, "EventKey", Get(r, "event_key", ek)))
    @@ ("Pen" :> Get(r, "Pen", Get(r, "pen", pn)))
    @@ ("Position" :> Get(r, "Position", Get(r, "position", Empty)))
    @@ ("Name" :> Get(r, "name", Get(r, "Name", Empty)))
    @@ ("Team" :> Get(r, "Team", Get(r, "team", Empty)))
    @@ ("Country" :> Get(r, "Country", Get(r, "country", Empty)))
    @@ ("Time" :> Get(r, "Time", Get(r, "time", Zero)))
    @@ ("DeltaTime" :> Get(r, "DeltaTime", Get(r, "delta_time", Zero)))
    @@ ("Distance" :> Get(r, "Distance", Get(r, "distance", DefaultDistance)))
    @@ ("DeltaDistance" :> Get(r, "DeltaDistance", Get(r, "delta_distance", Zero)))
    @@ ("Points" :> Get(r, "Points", Get(r, "points", Zero)))
    @@ ("Gender" :> Get(r, "Gender", Get(r, "gender", Empty)))
    @@ ("UID" :> Get(r, "UID", Get(r, "uid", Get(r, "user_id", Empty))))
    @@ ("ARR" :> Get(r, "ARR", Get(r, "arr", Empty)))
    @@ ("ARRBand" :> Get(r, "ARRBand", Get(r, "arr_band", Empty)))
    @@ ("EventRating" :> Get(r, "EventRating", Get(r, "event_rating", Empty)))
    @@ ("EventRatingBand" :> Get(r, "EventRatingBand", Get(r, "event_rating_band", Empty)))
    @@ ("AgeBand" :> Get(r, "AgeBand", Get(r, "age_band", Empty)))
    @@ ("NGB" :> Get(r, "NGB", Get(r, "ngb", Empty)))
    @@ ("NGB ID" :> Get(r, "NGB ID", Get(r, "ngb_id", Empty)))
    @@ ("UCI ID" :> Get(r, "UCI ID", Get(r, "uci_id", Empty)))

\* the dict `row` of one record (lines 82-104)
MakeRow(r, ek, pn) ==
       ("EventKey" :> Get(r, "EventKey", Get(r, "event_key", ek)))
    @@ ("Pen" :> Get(r, "Pen", Get(r, "pen", pn)))
    @@ ("Position" :> Get(r, "Position", Get(r, "position", Empty)))
    @@ ("Name" :> Get(r, "Name", Get(r, "name", Empty)))
    @@ ("Team" :> Get(r, "Team", Get(r, "team", Empty)))
    @@ ("Country" :> Get(r, "Country", Get(r, "country", Empty)))
    @@ ("Time" :> Get(r, "Time", Get(r, "time", Zero)))
    @@ ("DeltaTime" :> Get(r, "DeltaTime", Get(r, "delta_time", Zero)))
    @@ ("Distance" :> Get(r, "Distance", Get(r, "distance", DefaultDistance)))
    @@ ("DeltaDistance" :> Get(r, "DeltaDistance", Get(r, "delta_distance", Zero)))
    @@ ("Points" :> Get(r, "Points", Get(r, "points", Zero)))
    @@ ("Gender" :> Get(r, "Gender", Get(r, "gender", Empty)))
    @@ ("UID" :> Get(r, "UID", Get(r, "uid", Get(r, "user_id", Empty))))
    @@ ("ARR" :> Get(r, "ARR", Get(r, "arr", Empty)))
    @@ ("ARRBand" :> Get(r, "ARRBand", Get(r, "arr_band", Empty)))
    @@ ("EventRating" :> Get(r, "EventRating", Get(r, "event_rating", Empty)))
    @@ ("EventRatingBand" :> Get(r, "EventRatingBand", Get(r, "event_rating_band", Empty)))
    @@ ("AgeBand" :> Get(r, "AgeBand", Get(r, "age_band", Empty)))
    @@ ("NGB" :> Get(r, "NGB", Get(r, "ngb", Empty)))
    @@ ("NGB ID" :> Get(r, "NGB ID", Get(r, "ngb_id", Empty)))
    @@ ("UCI ID" :> Get(r, "UCI ID", Get(r, "uci_id", Empty)))

\* a loop that writes the records last to first
RECURSIVE WriteRowsReversed(_, _, _)
WriteRowsReversed(rs, ek, pn) ==
    IF rs = <<>> THEN <<>>
    ELSE Append(WriteRowsReversed(Tail(rs), ek, pn), MakeRow(Head(rs), ek, pn))

\* the rows `for result in results: ... writer.writerow(row)` writes (lines 80-106)
RECURSIVE WriteRows(_, _, _)
WriteRows(rs, ek, pn) ==
    IF rs = <<>> THEN <<>>
    ELSE <<MakeRow(Head(rs), ek, pn)>> \o WriteRows(Tail(rs), ek, pn)

\* `'results' in data` (line 35): a key of a dict; for a list, membership
\* among its elements, which are records and so never the string
HasResults(data) ==
    IF data.kind = "list" THEN FALSE ELSE "results" \in DOMAIN data.val

HeaderEventKeySnakeOnly(d) == Get(d, "event_key", DefaultEventKey)

\* data.get('event_key', data.get('EventKey', '88000')) (lines 37, 46)
HeaderEventKey(d) == Get(d, "event_key", Get(d, "EventKey", DefaultEventKey))

\* data.get('pen', data.get('Pen', '1')) (lines 38, 47)
HeaderPen(d) == Get(d, "pen", Get(d, "Pen", DefaultPen))

ExtractCapitalised(data) ==
    IF data.kind # "list" /\ "Results" \in DOMAIN data.val
    THEN [results |-> data.val["Results"][2],
          event_key |-> HeaderEventKey(data.val), pen |-> HeaderPen(data.val)]
    ELSE IF data.kind = "list"
    THEN [results |-> data.val, event_key |-> DefaultEventKey, pen |-> DefaultPen]
    ELSE [results |-> <<data.val>>,
          event_key |-> HeaderEventKey(data.val), pen |-> HeaderPen(data.val)]

\* the three-way dispatch on the document's shape (lines 35-48)
Extract(data) ==
    IF HasResults(data)
    THEN [results |-> data.val["results"][2],
          event_key |-> HeaderEventKey(data.val), pen |-> HeaderPen(data.val)]
    ELSE IF data.kind = "list"
    THEN [results |-> data.val, event_key |-> DefaultEventKey, pen |-> DefaultPen]
    ELSE [results |-> <<data.val>>,
          event_key |-> HeaderEventKey(data.val), pen |-> HeaderPen(data.val)]

NeverEmpty(rs) == FALSE

\* `not results` (line 50)
IsEmpty(rs) == rs = <<>>

strftimeTenSeconds(t) == (t \div TicksPerSecond) \div 10

\* datetime.now().strftime('%Y%m%d_%H%M%S') (line 58): the clock, cut to the second
strftime(t) == t \div TicksPerSecond

OutputFileInCwd(output_folder, ek, pn, timestamp) ==
    << ".", <<"TPVirtual-Results-Event", Str(ek), "-Pen", Str(pn), "-", timestamp, ".csv">> >>

\* Path(output_folder) / f"TPVirtual-Results-Event{event_key}-Pen{pen}-{timestamp}.csv" (line 59)
OutputFile(output_folder, ek, pn, timestamp) ==
    << output_folder,
       <<"TPVirtual-Results-Event", Str(ek), "-Pen", Str(pn), "-", timestamp, ".csv">> >>

\* what the `with open(output_file, 'w', ...)` block leaves in the file (lines 62-106)
FileContent(rs, ek, pn, t) ==
    [ title |-> "OVERALL INDIVIDUAL RESULTS:",
      blank |-> "",
      header |-> fieldnames,
      rows |-> WriteRows(rs, ek, pn),
      mtime |-> t \div TicksPerSecond ]   \* modification time, in whole seconds

InputPath == "in.json"
MissingPath == "missing.json"
OutFolder == "out"

UsageMsg == <<"Usage: python json_to_csv.py <json_file> <output_folder>">>
NotFoundMsg(json_file) == <<"Error: JSON file not found: ", json_file>>
NoResultsMsg == <<"No results found in JSON data">>
ConvertedMsg(output_file) == <<"Converted JSON to CSV: ", output_file>>
ProcessedMsg(n) == <<"  - ", n, " results processed">>
TracebackMsg == <<"Traceback (most recent call last):">>

PathExistsAlways(p) == TRUE

\* Path(json_file).exists() (line 122)
PathExists(p) == p = InputPath

\* the outcome of a run in which json_to_csv was not called
NotCalled(dirs, files) ==
    [ raised |-> FALSE, ret |-> None, log |-> <<>>, trace |-> <<>>,
      folders |-> dirs, fs |-> files,
      results |-> <<>>, event_key |-> None, pen |-> None ]

\* json_to_csv(json_file_path, output_folder) (lines 14-110), run at time t on
\* the directories dirs and the files `files`, the JSON file holding `content`
json_to_csv(json_file_path, output_folder, t, dirs, files, content) ==
    LET start == [NotCalled(dirs, files) EXCEPT !.trace = <<"open_r">>]
    IN  IF ~(json_file_path = InputPath) \/ content.kind = "malformed"
        THEN [start EXCEPT !.raised = TRUE, !.log = <<TracebackMsg>>]
        ELSE
        LET x == Extract(content)
            got == [start EXCEPT !.results = x.results,
                                 !.event_key = x.event_key, !.pen = x.pen]
        IN  IF IsEmpty(x.results)
            THEN [got EXCEPT !.log = <<NoResultsMsg>>]
            ELSE
            LET output_file == OutputFile(output_folder, x.event_key, x.pen, strftime(t))
                opened == IF output_file \in DOMAIN files THEN "truncate" ELSE "create"
            IN  [got EXCEPT
                    !.folders = dirs \cup {output_folder},
                    !.fs = (output_file :> FileContent(x.results, x.event_key, x.pen, t))
                           @@ files,
                    !.trace = <<"open_r", "mkdir", opened>>,
                    !.log = <<ConvertedMsg(output_file), ProcessedMsg(Len(x.results))>>,
                    !.ret = output_file]

\* main() (lines 113-126) with sys.argv = args; args[1] is the program's name
main(args, t, dirs, files, content) ==
    IF Len(args) < 3
    THEN [NotCalled(dirs, files) EXCEPT !.log = <<UsageMsg>>] @@ [exitCode |-> 1]
    ELSE
    LET json_file == args[2]
        output_folder == args[3]
    IN  IF ~PathExists(json_file)
        THEN [NotCalled(dirs, files) EXCEPT
                !.log = <<NotFoundMsg(json_file)>>, !.trace = <<"exists">>]
             @@ [exitCode |-> 1]
        ELSE
        LET r == json_to_csv(json_file, output_folder, t, dirs, files, content)
        IN  [r EXCEPT !.trace = <<"exists">> \o r.trace]
            @@ [exitCode |-> IF r.raised THEN 1 ELSE 0]

----------------------------------------------------------------------------
(* The inputs *)

HeaderKeys == {"event_key", "EventKey", "pen", "Pen"}
HeaderValues == {V7, VA, VNull}
Headers == Maps(HeaderKeys, HeaderValues, MaxWeight)

ListRecords == { "name" :> VA, "EventKey" :> VA }
Lists == SeqsUpTo(ListRecords, MaxWeight)

Malformed == [kind |-> "malformed", val |-> <<>>]

Docs ==
       { [kind |-> "dict", val |-> h @@ ("results" :> <<"list", l>>)] :
            <<h, l>> \in { p \in Headers \X Lists :
                             Cardinality(DOMAIN p[1]) + Len(p[2]) <= MaxWeight } }
  \cup { [kind |-> "list", val |-> l] : l \in Lists }
  \cup { [kind |-> "dict", val |-> h] : h \in Headers }
  \cup { Malformed }

Prog == "json_to_csv.py"

ArgvSet ==
    { <<Prog>>, <<Prog, InputPath>>,
      <<Prog, InputPath, OutFolder>>, <<Prog, MissingPath, OutFolder>> }

\* the records the row mapping is tried on: for each output field, every
\* choice of its keys and of their values
RowValues == {V7, VA, VNull}

FieldKeys ==
    { {"EventKey", "event_key"}, {"Pen", "pen"}, {"Position", "position"},
      {"Name", "name"}, {"Team", "team"}, {"Country", "country"},
      {"Time", "time"}, {"DeltaTime", "delta_time"}, {"Distance", "distance"},
      {"DeltaDistance", "delta_distance"}, {"Points", "points"},
      {"Gender", "gender"}, {"UID", "uid", "user_id"}, {"ARR", "arr"},
      {"ARRBand", "arr_band"}, {"EventRating", "event_rating"},
      {"EventRatingBand", "event_rating_band"}, {"AgeBand", "age_band"},
      {"NGB", "ngb"}, {"NGB ID", "ngb_id"}, {"UCI ID", "uci_id"} }

FieldRecords ==
    UNION { UNION { [S -> RowValues] : S \in SUBSET ks } : ks \in FieldKeys }

----------------------------------------------------------------------------
(* The program as a state machine *)

Init ==
    /\ input \in Docs
    /\ now = 0
    /\ folders = {}
    /\ fs = <<>>
    /\ argv = <<>>
    /\ exitCode = -1
    /\ log = <<>>
    /\ trace = <<>>
    /\ ret = None
    /\ results = <<>>
    /\ event_key = None
    /\ pen = None
    /\ result = <<>>
    /\ row = <<>>

\* one run of the program
Main ==
    \E args \in ArgvSet :
        LET o == main(args, now, folders, fs, input)
        IN  /\ argv' = args
            /\ exitCode' = o.exitCode
            /\ log' = o.log
            /\ trace' = o.trace
            /\ ret' = o.ret
            /\ folders' = o.folders
            /\ fs' = o.fs
            /\ results' = o.results
            /\ event_key' = o.event_key
            /\ pen' = o.pen
            /\ UNCHANGED <<input, now, result, row>>

\* the wall clock advances
Tick ==
    /\ now < MaxNow
    /\ now' = now + 1
    /\ UNCHANGED <<input, folders, fs, argv, exitCode, log, trace, ret,
                   results, event_key, pen, result, row>>

Next == Main \/ Tick

Spec == Init /\ [][Next]_vars

\* the row mapping alone, on one record and one pair of header values
InitRow ==
    /\ input = [kind |-> "list", val |-> <<>>]
    /\ now = 0
    /\ folders = {}
    /\ fs = <<>>
    /\ argv = <<>>
    /\ exitCode = -1
    /\ log = <<>>
    /\ trace = <<>>
    /\ ret = None
    /\ results = <<>>
    /\ event_key \in RowValues \cup {DefaultEventKey}
    /\ pen \in RowValues \cup {DefaultPen}
    /\ result \in FieldRecords
    /\ row = <<>>

BuildRow ==
    /\ row = <<>>
    /\ row' = MakeRow(result, event_key, pen)
    /\ UNCHANGED <<input, now, folders, fs, argv, exitCode, log, trace, ret,
                   results, event_key, pen, result>>

NextRow == BuildRow

SpecRow == InitRow /\ [][NextRow]_vars

----------------------------------------------------------------------------
(* What the properties below speak of *)

Range(s) == { s[i] : i \in DOMAIN s }

\* the last run called json_to_csv on the existing JSON file
Invoked == Len(argv) >= 3 /\ argv[2] = InputPath

\* ... and the file parsed
Converted == Invoked /\ input.kind # "malformed"

SingleObject(doc) == doc.kind = "dict" /\ "results" \notin DOMAIN doc.val

\* the record list of a document, by the three input shapes
RecordListOf(doc) ==
    IF doc.kind = "dict" /\ "results" \in DOMAIN doc.val THEN doc.val["results"][2]
    ELSE IF doc.kind = "list" THEN doc.val
    ELSE <<doc.val>>

\* the field alias table: the keys tried after the PascalCase key
AltKeys ==
       ("EventKey" :> <<"event_key">>) @@ ("Pen" :> <<"pen">>)
    @@ ("Position" :> <<"position">>) @@ ("Name" :> <<"name">>)
    @@ ("Team" :> <<"team">>) @@ ("Country" :> <<"country">>)
    @@ ("Time" :> <<"time">>) @@ ("DeltaTime" :> <<"delta_time">>)
    @@ ("Distance" :> <<"distance">>) @@ ("DeltaDistance" :> <<"delta_distance">>)
    @@ ("Points" :> <<"points">>) @@ ("Gender" :> <<"gender">>)
    @@ ("UID" :> <<"uid", "user_id">>) @@ ("ARR" :> <<"arr">>)
    @@ ("ARRBand" :> <<"arr_band">>) @@ ("EventRating" :> <<"event_rating">>)
    @@ ("EventRatingBand" :> <<"event_rating_band">>) @@ ("AgeBand" :> <<"age_band">>)
    @@ ("NGB" :> <<"ngb">>) @@ ("NGB ID" :> <<"ngb_id">>) @@ ("UCI ID" :> <<"uci_id">>)

\* the field alias table: the per-field default
DefaultOf(f, ek, pn) ==
    IF f = "EventKey" THEN ek
    ELSE IF f = "Pen" THEN pn
    ELSE IF f \in {"Time", "DeltaTime", "DeltaDistance", "Points"} THEN Zero
    ELSE IF f = "Distance" THEN DefaultDistance
    ELSE Empty

\* ordered lookup: the value under the first of the keys the record holds
RECURSIVE Resolve(_, _, _)
Resolve(r, keys, default) ==
    IF keys = <<>> THEN default
    ELSE IF Head(keys) \in DOMAIN r THEN r[Head(keys)]
    ELSE Resolve(r, Tail(keys), default)

RowBuilt == DOMAIN row # {}

----------------------------------------------------------------------------
(* C1: every file written holds exactly one data row per record of the     *)
(* document's record list (one row on the single-object path), and its     *)
(* i-th row is the row of the i-th record: none dropped, duplicated,       *)
(* merged or reordered.                                                    *)
C1_RowPerRecord ==
    \A p \in DOMAIN fs :
        LET rs == RecordListOf(input)
            x == Extract(input)
            rows == fs[p].rows
        IN  /\ Len(rows) = Len(rs)
            /\ SingleObject(input) => Len(rows) = 1
            /\ \A i \in 1 .. Len(rs) : rows[i] = MakeRow(rs[i], x.event_key, x.pen)

\* a file of two different rows was written from a list of two records
C1_Witness ==
    \E p \in DOMAIN fs :
        /\ Len(RecordListOf(input)) = 2
        /\ Len(fs[p].rows) = 2
        /\ fs[p].rows[1] # fs[p].rows[2]

(* C2: every field of the row is resolved by ordered lookup: the value     *)
(* under the PascalCase key if the record holds it, else under the         *)
(* alternate key(s) in the alias table's order, else the field's default;  *)
(* with both Name and name present the row's Name is the value of Name.    *)
C2_OrderedLookup ==
    RowBuilt =>
        /\ \A i \in DOMAIN fieldnames :
              LET f == fieldnames[i]
              IN  row[f] = Resolve(result, <<f>> \o AltKeys[f], DefaultOf(f, event_key, pen))
        /\ {"Name", "name"} \subseteq DOMAIN result => row["Name"] = result["Name"]

\* a row was built from a record holding Name and name with different values
C2_Witness ==
    /\ RowBuilt
    /\ {"Name", "name"} \subseteq DOMAIN result
    /\ result["Name"] # result["name"]
    /\ row["Name"] = result["Name"]

(* C3: every one of the 21 fields of the row is present and resolves to a  *)
(* non-absent value, whatever keys the record holds and whatever values    *)
(* they hold.                                                              *)
C3_TotalNonAbsent ==
    RowBuilt =>
        \A i \in DOMAIN fieldnames :
            /\ fieldnames[i] \in DOMAIN row
            /\ row[fieldnames[i]] # VNull

C5_HeaderValues ==
    Converted =>
        /\ input.kind = "list" => event_key = DefaultEventKey /\ pen = DefaultPen
        /\ input.kind = "dict" =>
              LET eks == {"event_key", "EventKey"} \cap DOMAIN input.val
                  pns == {"pen", "Pen"} \cap DOMAIN input.val
              IN  /\ IF eks = {} THEN event_key = DefaultEventKey
                      ELSE event_key \in { input.val[k] : k \in eks }
                  /\ IF pns = {} THEN pen = DefaultPen
                      ELSE pen \in { input.val[k] : k \in pns }
        /\ \A p \in DOMAIN fs : \A i \in DOMAIN fs[p].rows :
              LET r == RecordListOf(input)[i]
              IN  /\ {"EventKey", "event_key"} \cap DOMAIN r = {}
                        => fs[p].rows[i]["EventKey"] = event_key
                  /\ {"Pen", "pen"} \cap DOMAIN r = {}
                        => fs[p].rows[i]["Pen"] = pen

\* a bare list of two records without those keys: two rows, '88000' and '1'
C5_Witness ==
    /\ Converted
    /\ input.kind = "list"
    /\ Len(input.val) = 2
    /\ \A i \in 1 .. 2 : DOMAIN input.val[i] = {"name"}
    /\ ret \in DOMAIN fs
    /\ Len(fs[ret].rows) = 2
    /\ \A i \in 1 .. 2 : /\ fs[ret].rows[i]["EventKey"] = DefaultEventKey
                         /\ fs[ret].rows[i]["Pen"] = DefaultPen

(* C6: a conversion of a document whose record list is empty is a no-op    *)
(* success: it raises nothing, creates and overwrites no output file,      *)
(* returns no path and reports that no records were found.                 *)
C6_EmptyNoOp ==
    [][ ( /\ now' = now
          /\ Len(argv') >= 3 /\ argv'[2] = InputPath
          /\ input.kind # "malformed"
          /\ RecordListOf(input) = <<>> )
        => ( /\ exitCode' = 0
             /\ ret' = None
             /\ fs' = fs
             /\ log' = <<NoResultsMsg>>
             /\ Range(trace') \cap {"create", "truncate"} = {} ) ]_vars

\* {"results": []} was converted
C6_Witness ==
    /\ Converted
    /\ input.kind = "dict"
    /\ "results" \in DOMAIN input.val
    /\ input.val["results"][2] = <<>>
    /\ exitCode = 0
    /\ ret = None
    /\ log = <<NoResultsMsg>>
    /\ DOMAIN fs = {}

(* C7: a conversion of a non-empty record list returns the path of the     *)
(* file it wrote, in the output folder, named                              *)
(* TPVirtual-Results-Event{eventKey}-Pen{pen}-{timestamp}.csv with the     *)
(* document-derived event key and pen and the current time cut to the      *)
(* second.                                                                 *)
C7_ReturnedPath ==
    [][ ( /\ now' = now
          /\ Len(argv') >= 3 /\ argv'[2] = InputPath
          /\ input.kind # "malformed"
          /\ RecordListOf(input) # <<>> )
        => ( /\ ret' \in DOMAIN fs'
             /\ ret'[1] = argv'[3]
             /\ ret'[2] = << "TPVirtual-Results-Event", Str(event_key'), "-Pen", Str(pen'),
                             "-", now \div TicksPerSecond, ".csv" >>
             /\ fs'[ret'].mtime = now \div TicksPerSecond
             /\ fs'[ret'].rows = WriteRows(RecordListOf(input), event_key', pen')
             /\ log' = <<ConvertedMsg(ret'), ProcessedMsg(Len(RecordListOf(input)))>> ) ]_vars

\* the name holds the header's event key 7 and pen A, not the record's EventKey
C7_Witness ==
    /\ Converted
    /\ input.kind = "dict"
    /\ "results" \in DOMAIN input.val
    /\ ret \in DOMAIN fs
    /\ event_key = V7
    /\ ret[2][2] = "7"
    /\ fs[ret].rows[1]["EventKey"] = VA

(* C8: of the conversions of one document into one folder, one that runs   *)
(* in a clock second in which an earlier one ran generates the same name   *)
(* and overwrites that file (no file is added); one that runs in a second  *)
(* in which none ran generates a new name and adds a file; and no          *)
(* conversion changes or removes a file written in another second.         *)
C8_Timestamps ==
    [][ ( now' = now /\ ret' # None )
        => LET sec == now \div TicksPerSecond
               same == { p \in DOMAIN fs : fs[p].mtime = sec }
           IN  /\ same # {} => /\ ret' \in same
                               /\ DOMAIN fs' = DOMAIN fs
               /\ same = {} => /\ ret' \notin DOMAIN fs
                               /\ DOMAIN fs' = DOMAIN fs \cup {ret'}
               /\ fs'[ret'].mtime = sec
               /\ \A p \in DOMAIN fs \ same : p \in DOMAIN fs' /\ fs'[p] = fs[p] ]_vars

\* the last run overwrote its file, and a file of another second remains
C8_Witness ==
    /\ "truncate" \in Range(trace)
    /\ Cardinality(DOMAIN fs) >= 2
    /\ \E p \in DOMAIN fs : fs[p].mtime # fs[ret].mtime

(* C9: main checks its preconditions in order: with fewer than two         *)
(* arguments it prints the usage message and exits 1 without any file      *)
(* access; with a json_file that does not exist it prints the              *)
(* file-not-found message naming it and exits 1 without opening it;        *)
(* json_to_csv runs only after both checks pass; neither failure creates   *)
(* a folder or a file.                                                     *)
C9_Preconditions ==
    [][ now' = now =>
          /\ Len(argv') < 3 =>
                /\ exitCode' = 1
                /\ log' = <<UsageMsg>>
                /\ trace' = <<>>
                /\ folders' = folders /\ fs' = fs
          /\ (Len(argv') >= 3 /\ argv'[2] = MissingPath) =>
                /\ exitCode' = 1
                /\ log' = <<NotFoundMsg(MissingPath)>>
                /\ trace' = <<"exists">>
                /\ folders' = folders /\ fs' = fs
          /\ "open_r" \in Range(trace') =>
                /\ Len(argv') >= 3 /\ argv'[2] = InputPath
                /\ trace'[1] = "exists" ]_vars

\* a run on a missing file after a conversion left the folder as it was
C9_Witness ==
    /\ Len(argv) = 3
    /\ argv[2] = MissingPath
    /\ exitCode = 1
    /\ trace = <<"exists">>
    /\ DOMAIN fs # {}

(* C10: on the single-object path the event key in the file name is the    *)
(* EventKey of the one row written, and the pen in the name is that row's  *)
(* Pen, whichever of EventKey, event_key, Pen, pen the root holds.         *)
C10_NameMatchesRow ==
    (Converted /\ SingleObject(input) /\ ret # None) =>
        /\ ret[2][2] = Str(fs[ret].rows[1]["EventKey"])
        /\ ret[2][4] = Str(fs[ret].rows[1]["Pen"])

====
